---------------------------- MODULE Spec2Model ----------------------------
(***************************************************************************)
(* A model of ProCaption's text compositor, CompositionService in          *)
(* src/src/services/composition.py: the colour parser _hex_to_rgba, the    *)
(* font resolver _get_font, the effect renderer _apply_text_effects and    *)
(* the three render handlers add_text, add_multiple_text_layers and        *)
(* compose_final_image.                                                    *)
(*                                                                         *)
(* Strings the code inspects character by character are sequences of       *)
(* one-character strings.  Python exceptions are values: an operation      *)
(* returns a record whose field raised tells whether it raised.            *)
(***************************************************************************)
EXTENDS Integers, Sequences, FiniteSets, TLC

VARIABLES
    hexIn,      \* the argument of a _hex_to_rgba call
    hexOut,     \* its outcome, NotCalled before the call
    tinted,     \* the parsed colour with an effect's opacity, NotCalled before
    fontsOnDisk,\* the font files present in assets/fonts
    loadable,   \* the fonts ImageFont.truetype can load on this machine
    fontIn,     \* the arguments of a _get_font call
    fontOut,    \* its outcome, NotCalled before the call
    fxIn,       \* the arguments of an _apply_text_effects call
    fxOut,      \* its outcome, NotCalled before the call
    clock,      \* int(time.time()), in seconds
    files,      \* the files under uploads/: path -> what was saved there
    fetches,    \* per call: the HTTP requests _resolve_image_path has sent
    pc,         \* per call: where the handler stands
    call,       \* per call: the handler and its arguments
    canvas,     \* per call: the image it opened and the draw.text calls on it
    outPath,    \* per call: the path it saved its result to
    uploaded,   \* per call: what the storage service read from that path
    ret         \* per call: what it returned or raised

colorVars == <<hexIn, hexOut, tinted>>
fontVars == <<fontsOnDisk, loadable, fontIn, fontOut>>
fxVars == <<fxIn, fxOut>>
reqVars == <<clock, files, fetches, pc, call, canvas, outPath, uploaded, ret>>
vars == <<hexIn, hexOut, tinted, fontsOnDisk, loadable, fontIn, fontOut, fxIn, fxOut,
          clock, files, fetches, pc, call, canvas, outPath, uploaded, ret>>

\* the outcome of a call that has not been made
NotCalled == [pending |-> TRUE]

Min(a, b) == IF a <= b THEN a ELSE b

\* a font_name that is no string (style['font_name'] = None)
NoneName == "<None>"

(***************************************************************************)
(* Each specification below exercises one part of the service; the         *)
(* variables of the other parts stay as these predicates leave them.       *)
(***************************************************************************)
ColorIdle ==
    /\ hexIn = <<>>
    /\ hexOut = NotCalled
    /\ tinted = NotCalled

FontIdle ==
    /\ fontsOnDisk = {}
    /\ loadable = {}
    /\ fontIn = [font_name |-> NoneName, font_size |-> 0]
    /\ fontOut = NotCalled

FxIdle ==
    /\ fxIn = NotCalled
    /\ fxOut = NotCalled

\* the calls that may be in flight at once
NumRequests == 2
Requests == 1..NumRequests

\* a per-call variable that holds nothing yet
Nothing == [nothing |-> TRUE]

ReqIdle ==
    /\ clock = 0
    /\ files = <<>>
    /\ fetches = [r \in Requests |-> 0]
    /\ pc = [r \in Requests |-> "idle"]
    /\ call = [r \in Requests |-> Nothing]
    /\ canvas = [r \in Requests |-> Nothing]
    /\ outPath = [r \in Requests |-> Nothing]
    /\ uploaded = [r \in Requests |-> Nothing]
    /\ ret = [r \in Requests |-> Nothing]

(***************************************************************************)
(* Bounds of the colour inputs.                                            *)
(***************************************************************************)
MaxHexLen == 8
MaxHashes == 2

\* The characters colour strings are built from: decimal, lower-case and
\* upper-case hex digits, and a letter that is no hex digit.
BodyChars == {"0", "a", "F", "G"}

(***************************************************************************)
(* _hex_to_rgba                                                            *)
(***************************************************************************)
HexDigits == {"0", "1", "2", "3", "4", "5", "6", "7", "8", "9",
              "a", "b", "c", "d", "e", "f", "A", "B", "C", "D", "E", "F"}

\* int(c, 16) of one hex digit
HexVal(c) ==
    CASE c = "0" -> 0 [] c = "1" -> 1 [] c = "2" -> 2 [] c = "3" -> 3
      [] c = "4" -> 4 [] c = "5" -> 5 [] c = "6" -> 6 [] c = "7" -> 7
      [] c = "8" -> 8 [] c = "9" -> 9
      [] c \in {"a", "A"} -> 10 [] c \in {"b", "B"} -> 11
      [] c \in {"c", "C"} -> 12 [] c \in {"d", "D"} -> 13
      [] c \in {"e", "E"} -> 14 [] c \in {"f", "F"} -> 15

\* Whether int(s, 16) raises ValueError, for a slice s of one or two
\* characters none of which is a sign, white space or an underscore.
IntRaises(s) == \E i \in 1..Len(s) : s[i] \notin HexDigits

\* int(s, 16) where it does not raise
Int16(s) == IF Len(s) = 1 THEN HexVal(s[1]) ELSE 16 * HexVal(s[1]) + HexVal(s[2])

\* str.lstrip('#'): every leading '#' is removed
RECURSIVE LStripHash(_)
LStripHash(s) == IF s # <<>> /\ Head(s) = "#" THEN LStripHash(Tail(s)) ELSE s

White == <<255, 255, 255, 255>>

Raised == [raised |-> TRUE, rgba |-> <<>>]
Rgba(r, g, b, a) == [raised |-> FALSE, rgba |-> <<r, g, b, a>>]

\* a short form's digit d becomes the byte dd
ExpandNibble_Shift(n) == n * 16
ExpandNibble(n) == n * 17

HexToRgba(hex_color) ==
    IF hex_color # <<>> /\ Head(hex_color) = "#"
    THEN LET h == LStripHash(hex_color)
             P(i, j) == SubSeq(h, i, j)
         IN CASE Len(h) = 8 ->
                   IF \E k \in 0..3 : IntRaises(P(2*k + 1, 2*k + 2)) THEN Raised
                   ELSE Rgba(Int16(P(1, 2)), Int16(P(3, 4)), Int16(P(5, 6)), Int16(P(7, 8)))
              [] Len(h) = 6 ->
                   IF \E k \in 0..2 : IntRaises(P(2*k + 1, 2*k + 2)) THEN Raised
                   ELSE Rgba(Int16(P(1, 2)), Int16(P(3, 4)), Int16(P(5, 6)), 255)
              [] Len(h) = 4 ->
                   IF \E k \in 1..4 : IntRaises(P(k, k)) THEN Raised
                   ELSE Rgba(ExpandNibble(Int16(P(1, 1))), ExpandNibble(Int16(P(2, 2))),
                             ExpandNibble(Int16(P(3, 3))), ExpandNibble(Int16(P(4, 4))))
              [] Len(h) = 3 ->
                   IF \E k \in 1..3 : IntRaises(P(k, k)) THEN Raised
                   ELSE Rgba(ExpandNibble(Int16(P(1, 1))), ExpandNibble(Int16(P(2, 2))),
                             ExpandNibble(Int16(P(3, 3))), 255)
              [] OTHER -> Rgba(255, 255, 255, 255)
    ELSE Rgba(255, 255, 255, 255)

\* opacities, in hundredths
Opacities == {0, 30, 100}

\* (r, g, b, int(255 * opacity)): the parsed colour's own alpha is dropped
WithOpacity_Scale256(rgba, opacity) == <<rgba[1], rgba[2], rgba[3], (256 * opacity) \div 100>>
WithOpacity(rgba, opacity) == <<rgba[1], rgba[2], rgba[3], (255 * opacity) \div 100>>

(***************************************************************************)
(* The colour specification: one call of _hex_to_rgba on any string of     *)
(* up to MaxHashes '#' followed by up to MaxHexLen body characters.        *)
(***************************************************************************)
ColorInit == ColorIdle /\ FontIdle /\ FxIdle /\ ReqIdle

\* The caller writes the string: '#' characters first, then the body.
TypeHash ==
    /\ hexOut = NotCalled
    /\ LStripHash(hexIn) = <<>>
    /\ Len(hexIn) < MaxHashes
    /\ hexIn' = Append(hexIn, "#")
    /\ UNCHANGED <<hexOut, tinted, fontVars, fxVars, reqVars>>

TypeChar ==
    /\ hexOut = NotCalled
    /\ Len(LStripHash(hexIn)) < MaxHexLen
    /\ \E c \in BodyChars : hexIn' = Append(hexIn, c)
    /\ UNCHANGED <<hexOut, tinted, fontVars, fxVars, reqVars>>

CallHexToRgba ==
    /\ hexOut = NotCalled
    /\ hexOut' = HexToRgba(hexIn)
    /\ UNCHANGED <<hexIn, tinted, fontVars, fxVars, reqVars>>

\* An effect branch gives the parsed colour its opacity.
ApplyOpacity ==
    /\ hexOut # NotCalled
    /\ ~hexOut.raised
    /\ tinted = NotCalled
    /\ \E opacity \in Opacities :
         tinted' = [opacity |-> opacity, rgba |-> WithOpacity(hexOut.rgba, opacity)]
    /\ UNCHANGED <<hexIn, hexOut, fontVars, fxVars, reqVars>>

ColorNext == TypeHash \/ TypeChar \/ CallHexToRgba \/ ApplyOpacity

SpecColor == ColorInit /\ [][ColorNext]_vars

(***************************************************************************)
(* _get_font                                                               *)
(***************************************************************************)
\* self.dramatic_fonts
dramatic_fonts ==
    [anton |-> "Anton-Regular.ttf", sixcaps |-> "SixCaps.ttf", impact |-> "Impact",
     arial_bold |-> "Arial Bold", helvetica_bold |-> "Helvetica Bold",
     boldonse |-> "Boldonse.ttf"]

\* font_file.endswith('.ttf') or font_file.endswith('.otf')
HasFontExt(font_file) == font_file \in {"Anton-Regular.ttf", "SixCaps.ttf", "Boldonse.ttf"}

\* The font identifiers of the model, and str.lower on them.
FontNames == {"anton", "Anton", "SixCaps", "Impact", "Arial", "Comic Sans", NoneName}
Lower(name) ==
    CASE name = "Anton" -> "anton" [] name = "SixCaps" -> "sixcaps"
      [] name = "Impact" -> "impact" [] name = "Arial" -> "arial"
      [] name = "Comic Sans" -> "comic sans" [] OTHER -> name

FontSizes == {0, 120}

SystemFont(name) == <<"system", name>>
\* str(self.fonts_dir / font_file)
FontPath(font_file) == <<"assets/fonts", font_file>>

\* What truetype may be asked to load in the model.
FontSources ==
    {FontPath("Anton-Regular.ttf"), SystemFont("Anton-Regular.ttf"),
     SystemFont("Impact"), SystemFont("Comic Sans"), SystemFont("Arial")}

FontRaised == [raised |-> TRUE]
FontHandle(h) == [raised |-> FALSE, handle |-> h]

\* ImageFont.truetype(source, size): raises when the font cannot be opened
\* and when the size is not positive.
TrueType(source, size) ==
    IF size > 0 /\ source \in loadable
    THEN FontHandle([kind |-> "truetype", source |-> source, size |-> size])
    ELSE FontRaised

\* ImageFont.load_default()
LoadDefault == FontHandle([kind |-> "default"])

\* the body of the outer try
GetFontTry(font_name, font_size) ==
    IF font_name = NoneName THEN FontRaised      \* None has no lower()
    ELSE IF Lower(font_name) \in DOMAIN dramatic_fonts
    THEN LET font_file == dramatic_fonts[Lower(font_name)]
         IN IF HasFontExt(font_file) /\ font_file \in fontsOnDisk
            THEN TrueType(FontPath(font_file), font_size)
            ELSE TrueType(SystemFont(font_file), font_size)
    ELSE TrueType(SystemFont(font_name), font_size)

\* the except branch: "Arial", then the built-in font
GetFontFallback_NoDefault(font_size) == TrueType(SystemFont("Arial"), font_size)
GetFontFallback(font_size) ==
    IF TrueType(SystemFont("Arial"), font_size).raised
    THEN LoadDefault
    ELSE TrueType(SystemFont("Arial"), font_size)

GetFont(font_name, font_size) ==
    IF GetFontTry(font_name, font_size).raised
    THEN GetFontFallback(font_size)
    ELSE GetFontTry(font_name, font_size)

(***************************************************************************)
(* The font specification: one call of _get_font, for every set of font    *)
(* files on disk and every set of fonts the machine can load.              *)
(***************************************************************************)
FontInit ==
    /\ fontsOnDisk \in SUBSET {"Anton-Regular.ttf", "SixCaps.ttf"}
    /\ loadable \in SUBSET FontSources
    /\ fontIn \in [font_name : FontNames, font_size : FontSizes]
    /\ fontOut = NotCalled
    /\ ColorIdle
    /\ FxIdle
    /\ ReqIdle

CallGetFont ==
    /\ fontOut = NotCalled
    /\ fontOut' = GetFont(fontIn.font_name, fontIn.font_size)
    /\ UNCHANGED <<fontsOnDisk, loadable, fontIn, colorVars, fxVars, reqVars>>

FontNext == CallGetFont

SpecFont == FontInit /\ [][FontNext]_vars

(***************************************************************************)
(* Python values.  None is NoneValue; a dict is a function from its keys   *)
(* (a record); a list or tuple setting is [list |-> its items]; a value    *)
(* that is none of these is Scalar.  A number between 0 and 1 (an opacity) is kept *)
(* in hundredths.                                                          *)
(***************************************************************************)
NoneValue == [none |-> TRUE]
IsNone(v) == "none" \in DOMAIN v
EmptyDict == [k \in {} |-> 0]
List(items) == [list |-> items]
Scalar == [scalar |-> TRUE]
IsList(v) == "list" \in DOMAIN v
\* a position given as a tuple, and one given as a dict
Tuple(items) == [tuple |-> items]
Dict(d) == [dict |-> d]

\* dict.get(k, default)
Get(d, k, default) == IF k \in DOMAIN d THEN d[k] ELSE default

\* range(a, b) as a sequence
PyRange(a, b) == [k \in 1..(b - a) |-> a + k - 1]

\* int(x) of the quotient n / d, d > 0: truncation toward zero
Trunc(n, d) == IF n >= 0 THEN n \div d ELSE -((-n) \div d)

RECURSIVE Concat(_)
Concat(ss) == IF ss = <<>> THEN <<>> ELSE Head(ss) \o Concat(Tail(ss))

Black == <<"#", "0", "0", "0", "0", "0", "0">>
WhiteHex == <<"#", "F", "F", "F", "F", "F", "F">>
DefaultGradient ==
    << <<"#", "3", "3", "3", "3", "3", "3">>, <<"#", "6", "6", "6", "6", "6", "6">>,
       <<"#", "9", "9", "9", "9", "9", "9">> >>

(***************************************************************************)
(* math.cos and math.sin of an angle in degrees, times 10^6 and truncated  *)
(* toward zero, as IEEE doubles give them (sin 30 is 0.49999999999999994   *)
(* and cos 60 is 0.5000000000000001).  With these, Trunc reproduces the    *)
(* code's int(...) of every product the model forms.                       *)
(***************************************************************************)
TrigScale == 1000000

CosE6(a) ==
    CASE a = 0 -> 1000000 [] a = 30 -> 866025 [] a = 45 -> 707106
      [] a = 60 -> 500000 [] a = 90 -> 0 [] a = 120 -> -499999
      [] a = 150 -> -866025 [] a = 180 -> -1000000 [] a = 210 -> -866025
      [] a = 240 -> -500000 [] a = 270 -> 0 [] a = 300 -> 500000
      [] a = 330 -> 866025

SinE6(a) ==
    CASE a = 0 -> 0 [] a = 30 -> 499999 [] a = 45 -> 707106
      [] a = 60 -> 866025 [] a = 90 -> 1000000 [] a = 120 -> 866025
      [] a = 150 -> 499999 [] a = 180 -> 0 [] a = 210 -> -500000
      [] a = 240 -> -866025 [] a = 270 -> -1000000 [] a = 300 -> -866025
      [] a = 330 -> -500000

(***************************************************************************)
(* _apply_text_effects                                                     *)
(***************************************************************************)
\* one draw.text call: where, and the fill it was given (the base colour
\* and a legacy shadow colour go to Pillow as strings, the others as RGBA)
Draw(x, y, fill) == [x |-> x, y |-> y, fill |-> fill]
StrFill(color) == [str |-> color]
RgbaFill(rgba) == [rgba |-> rgba]

Returned(draws) == [raised |-> FALSE, draws |-> draws]
Failed(draws) == [raised |-> TRUE, draws |-> draws]

\* vertical_adjustment_factor = 0.375, in thousandths
VerticalAdjustmentPermille == 375

\* the (x, y) the position stands for
PositionXY(position) ==
    IF "tuple" \in DOMAIN position /\ Len(position.tuple) = 2
    THEN <<position.tuple[1], position.tuple[2]>>
    ELSE IF "dict" \in DOMAIN position /\ {"x", "y"} \subseteq DOMAIN position.dict
    THEN <<position.dict.x, position.dict.y>>
    ELSE <<0, 0>>

\* (centered_x, centered_y)
DrawOrigin_NoAdjustment(position, text_width, text_height) ==
    LET xy == PositionXY(position)
    IN <<xy[1] - text_width \div 2, xy[2] - text_height \div 2>>
DrawOrigin_RoundsUp(position, text_width, text_height) ==
    LET xy == PositionXY(position)
        vertical_adjustment == (text_height * VerticalAdjustmentPermille + 999) \div 1000
    IN <<xy[1] - text_width \div 2,
         xy[2] - text_height \div 2 - vertical_adjustment>>
DrawOrigin(position, text_width, text_height) ==
    LET xy == PositionXY(position)
        vertical_adjustment == (text_height * VerticalAdjustmentPermille) \div 1000
    IN <<xy[1] - text_width \div 2,
         xy[2] - text_height \div 2 - vertical_adjustment>>

ShadowEffect(o, color, settings) ==
    LET shadow_offset == Get(settings, "offset", List(<<5, 5>>))
        shadow_color == Get(settings, "color", Black)
        shadow_opacity == Get(settings, "opacity", 50)
        off == IF IsList(shadow_offset) /\ Len(shadow_offset.list) >= 2
               THEN <<shadow_offset.list[1], shadow_offset.list[2]>>
               ELSE <<5, 5>>
        parsed == HexToRgba(shadow_color)
    IN IF parsed.raised THEN Failed(<<>>)
       ELSE Returned(<<Draw(o[1] + off[1], o[2] + off[2],
                            RgbaFill(WithOpacity(parsed.rgba, shadow_opacity))),
                       Draw(o[1], o[2], StrFill(color))>>)

\* the two nested range loops, the centre skipped
OutlineOffsets(outline_width) ==
    LET r == PyRange(-outline_width, outline_width + 1)
        NotCentre(d) == ~(d[1] = 0 /\ d[2] = 0)
    IN SelectSeq(Concat([i \in 1..Len(r) |-> [j \in 1..Len(r) |-> <<r[i], r[j]>>]]),
                 NotCentre)

OutlineEffect(o, color, settings) ==
    LET outline_width == Get(settings, "width", 2)
        outline_color == Get(settings, "color", Black)
        outline_opacity == Get(settings, "opacity", 100)
        parsed == HexToRgba(outline_color)
        offs == OutlineOffsets(outline_width)
    IN IF parsed.raised THEN Failed(<<>>)
       ELSE Returned([k \in 1..Len(offs) |->
                          Draw(o[1] + offs[k][1], o[2] + offs[k][2],
                               RgbaFill(WithOpacity(parsed.rgba, outline_opacity)))]
                     \o <<Draw(o[1], o[2], StrFill(color))>>)

\* steps = min(glow_radius, 20)
GlowMaxSteps == 20
GlowSteps(glow_radius) == Min(glow_radius, GlowMaxSteps)

\* range(0, 360, 30)
GlowAngles == [k \in 1..12 |-> 30 * (k - 1)]

\* The (opacity, i, steps) at which 255 * (opacity * (1 - i / steps)) is a
\* whole number in exact arithmetic and just below it in IEEE doubles, for
\* the opacities 0.3, 0.5, 0.7 and 1.0.
RingAlphaRoundsDown ==
    {<<30, 3, 17>>, <<30, 5, 17>>, <<30, 11, 17>>, <<50, 5, 17>>, <<50, 11, 17>>,
     <<50, 13, 15>>, <<70, 3, 7>>, <<70, 5, 7>>, <<70, 5, 17>>, <<70, 6, 14>>,
     <<70, 10, 14>>, <<70, 11, 17>>, <<100, 4, 5>>, <<100, 5, 17>>, <<100, 6, 17>>,
     <<100, 8, 10>>, <<100, 11, 17>>, <<100, 12, 15>>, <<100, 12, 17>>,
     <<100, 13, 15>>, <<100, 14, 15>>, <<100, 16, 20>>}

\* int(255 * current_opacity), current_opacity = glow_opacity * (1 - i / steps)
RingAlpha(glow_opacity, i, steps) ==
    (255 * glow_opacity * (steps - i)) \div (100 * steps)
      - (IF <<glow_opacity, i, steps>> \in RingAlphaRoundsDown THEN 1 ELSE 0)

\* the draws of ring i: current_radius = (i / steps) * glow_radius
GlowRing(o, rgb, glow_radius, glow_opacity, i, steps) ==
    [k \in 1..Len(GlowAngles) |->
        Draw(o[1] + Trunc(i * glow_radius * CosE6(GlowAngles[k]), steps * TrigScale),
             o[2] + Trunc(i * glow_radius * SinE6(GlowAngles[k]), steps * TrigScale),
             RgbaFill(<<rgb[1], rgb[2], rgb[3], RingAlpha(glow_opacity, i, steps)>>))]

GlowEffect(o, color, settings) ==
    LET glow_color == Get(settings, "color", WhiteHex)
        glow_radius == Get(settings, "radius", 10)
        glow_opacity == Get(settings, "opacity", 70)
        parsed == HexToRgba(glow_color)
        steps == GlowSteps(glow_radius)
        rings == PyRange(1, steps + 1)
    IN IF parsed.raised THEN Failed(<<>>)
       ELSE Returned(Concat([n \in 1..Len(rings) |->
                                GlowRing(o, WithOpacity(parsed.rgba, glow_opacity),
                                         glow_radius, glow_opacity, rings[n], steps)])
                     \o <<Draw(o[1], o[2], StrFill(color))>>)

\* min(int((i / layers) * (len(color_gradient) - 1)), len(color_gradient) - 1)
ColorIndex_FromFront(i, layers, n) == Min(Trunc((layers - i) * (n - 1), layers), n - 1)
ColorIndex(i, layers, n) == Min(Trunc(i * (n - 1), layers), n - 1)

Depth3DEffect(o, color, settings) ==
    LET layers == Get(settings, "layers", 10)
        angle == Get(settings, "angle", 45)
        distance == Get(settings, "distance", 2)
        color_gradient == Get(settings, "color_gradient", DefaultGradient)
        n == Len(color_gradient)
        \* range(layers, 0, -1)
        order == [k \in 1..layers |-> layers - k + 1]
        LayerDraw(i) ==
            Draw(o[1] - Trunc(i * distance * CosE6(angle), TrigScale),
                 o[2] - Trunc(i * distance * SinE6(angle), TrigScale),
                 StrFill(color_gradient[ColorIndex(i, layers, n) + 1]))
    IN IF layers >= 1 /\ n = 0 THEN Failed(<<>>)     \* IndexError on an empty list
       ELSE Returned([k \in 1..Len(order) |-> LayerDraw(order[k])]
                     \o <<Draw(o[1], o[2], StrFill(color))>>)

PlainText_Twice(o, color) ==
    Returned(<<Draw(o[1], o[2], StrFill(color)), Draw(o[1], o[2], StrFill(color))>>)
PlainText(o, color) == Returned(<<Draw(o[1], o[2], StrFill(color))>>)

\* the else branch of the effect_type chain
UnknownEffect_Raises(o, color) == Failed(<<>>)
UnknownEffect(o, color) == PlainText(o, color)

LegacyEffect(o, color, effects) ==
    IF "shadow" \in DOMAIN effects
    THEN LET shadow_settings == effects["shadow"]
             shadow_offset == Get(shadow_settings, "offset", List(<<5, 5>>))
             shadow_color == Get(shadow_settings, "color", Black)
         IN IF ~IsList(shadow_offset) \/ Len(shadow_offset.list) < 2
            THEN Failed(<<>>)        \* shadow_offset[0], shadow_offset[1]
            ELSE Returned(<<Draw(o[1] + shadow_offset.list[1],
                                 o[2] + shadow_offset.list[2], StrFill(shadow_color)),
                            Draw(o[1], o[2], StrFill(color))>>)
    ELSE PlainText(o, color)

ApplyTextEffects(position, text_width, text_height, color, effects) ==
    LET o == DrawOrigin(position, text_width, text_height)
    IN IF IsNone(effects) \/ DOMAIN effects = {} THEN PlainText(o, color)
       ELSE IF "type" \in DOMAIN effects
       THEN LET effect_type == effects["type"]
                settings == Get(effects, "settings", EmptyDict)
            IN CASE effect_type = "shadow" -> ShadowEffect(o, color, settings)
                 [] effect_type = "outline" -> OutlineEffect(o, color, settings)
                 [] effect_type = "glow" -> GlowEffect(o, color, settings)
                 [] effect_type = "3d_depth" -> Depth3DEffect(o, color, settings)
                 [] OTHER -> UnknownEffect(o, color)
       ELSE LegacyEffect(o, color, effects)

(***************************************************************************)
(* The effects specification: one call of _apply_text_effects, for the     *)
(* positions, text boxes and effect dicts below.                           *)
(***************************************************************************)
MaxWidth == 3
MaxRadius == 22
MaxLayers == 4

\* a dict with the key k or without it
Opt(k, values) == {EmptyDict} \cup {k :> v : v \in values}

Red == <<"#", "F", "0", "0">>
HalfBlack == <<"#", "0", "0", "0", "0", "0", "0", "a", "a">>
\* a colour name, which does not start with '#', and a string that does
\* but holds a letter that is no hex digit
NamedColor == <<"r", "e", "d">>
BadHex == <<"#", "a", "a", "G">>
EffectColors == {Red, HalfBlack, NamedColor, BadHex}

\* position: a tuple, a dict, or something else
Positions ==
    {Tuple(<<100, 100>>), Tuple(<<-3, 7>>), Tuple(<<1, 2, 3>>),
     Dict([x |-> 100, y |-> 100]), Dict([x |-> 5]), Scalar}

\* (text_width, text_height) from draw.textbbox
TextBoxes == {<<0, 0>>, <<40, 20>>, <<7, 5>>}

ShadowSettings ==
    {a @@ b @@ c @@ d :
        a \in Opt("offset", {List(<<3, -2>>), List(<<1>>), List(<<1, 2, 3>>), Scalar}),
        b \in Opt("color", EffectColors),
        c \in Opt("opacity", Opacities),
        d \in Opt("blur", {9})}

OutlineSettings ==
    {a @@ b @@ c :
        a \in Opt("width", -1..MaxWidth),
        b \in Opt("color", EffectColors),
        c \in Opt("opacity", Opacities)}

GlowSettings ==
    {a @@ b @@ c :
        a \in Opt("radius", -1..MaxRadius),
        b \in Opt("color", EffectColors),
        c \in Opt("opacity", Opacities)}

Gradients == {<<>>, <<Red>>, <<Red, Black>>, <<Red, Black, WhiteHex, NamedColor>>}

Depth3DSettings ==
    {a @@ b @@ c @@ d :
        a \in Opt("layers", -1..MaxLayers),
        b \in Opt("angle", {0, 30, 90}),
        c \in Opt("distance", {0, 3}),
        d \in Opt("color_gradient", Gradients)}

LegacyShadows ==
    {a @@ b :
        a \in Opt("offset", {List(<<3, -2>>), List(<<1>>), Scalar}),
        b \in Opt("color", {Red, NamedColor})}

Typed(type, settings) ==
    {"type" :> type} \cup {("type" :> type) @@ ("settings" :> st) : st \in settings}

KnownTypes == {"shadow", "outline", "glow", "3d_depth"}
UnknownTypes == {"bevel", "text_gradient"}

EffectSpecs ==
    {NoneValue, EmptyDict, "foo" :> 1}
      \cup Typed("shadow", ShadowSettings)
      \cup Typed("outline", OutlineSettings)
      \cup Typed("glow", GlowSettings)
      \cup Typed("3d_depth", Depth3DSettings)
      \cup UNION {Typed(t, {[width |-> 1]}) : t \in UnknownTypes}
      \cup {"shadow" :> ls : ls \in LegacyShadows}
      \cup {("type" :> t) @@ ("shadow" :> [offset |-> List(<<3, -2>>)]) :
              t \in {"outline", "bevel"}}

FxInit ==
    /\ fxIn \in [position : Positions, text_box : TextBoxes,
                 color : {WhiteHex}, effects : EffectSpecs]
    /\ fxOut = NotCalled
    /\ ColorIdle
    /\ FontIdle
    /\ ReqIdle

CallApplyTextEffects ==
    /\ fxOut = NotCalled
    /\ fxOut' = ApplyTextEffects(fxIn.position, fxIn.text_box[1], fxIn.text_box[2],
                                 fxIn.color, fxIn.effects)
    /\ UNCHANGED <<fxIn, colorVars, fontVars, reqVars>>

FxNext == CallApplyTextEffects

SpecEffects == FxInit /\ [][FxNext]_vars

(***************************************************************************)
(* The render handlers add_text, add_multiple_text_layers and              *)
(* compose_final_image.  A handler runs from one await to the next in one  *)
(* step; other calls may run between its steps.                            *)
(***************************************************************************)
\* An image path: an http(s) URL or a local path, with the base name of
\* the file it names (os.path.basename without the extension).
ImageRef(scheme, name) == [scheme |-> scheme, name |-> name]

\* Image.open(resolved_path).convert('RGBA'), nothing drawn on it yet
Opened_Blank(ref) == [image |-> "blank", draws |-> <<>>]
Opened(ref) == [image |-> ref.name, draws |-> <<>>]

\* The pixels (r, g, b, a) of the image files of the model, row by row.
ImagePixels(name) ==
    CASE name = "photo" -> << <<10, 20, 30, 255>>, <<200, 100, 0, 255>>, <<0, 0, 0, 0>> >>
      [] name = "cutout" -> << <<255, 0, 0, 255>>, <<1, 2, 3, 0>>, <<0, 255, 0, 128>> >>
      [] name = "faded" -> << <<9, 9, 9, 128>>, <<50, 60, 70, 1>>, <<255, 255, 255, 254>> >>
      [] name = "small" -> << <<7, 7, 7, 255>> >>

\* the pixels of an image nothing was drawn on
PixelsOf(image) ==
    IF "resized" \in DOMAIN image THEN image.resized ELSE ImagePixels(image.image)

\* foreground.resize(background.size, Image.Resampling.LANCZOS): an image of
\* that size, whose pixels the resampling decides
ResampledPixels == {<<7, 7, 7, 255>>, <<7, 7, 7, 100>>, <<0, 0, 0, 0>>}
Resize(image, size) ==
    {[image |-> image.image, draws |-> image.draws, resized |-> px] :
        px \in [1..size -> ResampledPixels]}

\* if foreground.size != background.size: foreground = foreground.resize(...)
SizeMatched(background, foreground) ==
    IF Len(PixelsOf(foreground)) # Len(PixelsOf(background))
    THEN Resize(foreground, Len(PixelsOf(background)))
    ELSE {foreground}

\* Pillow's alpha compositing of one pixel, src over dst, in its integer
\* arithmetic with 7 bits of precision; a division by 255 is
\* ((a >> 8) + a) >> 8.
ShiftForDiv255(a) == ((a \div 256) + a) \div 256
PrecisionBits == 7
OverPixel(dst, src) ==
    IF src[4] = 0 THEN dst
    ELSE LET blend == dst[4] * (255 - src[4])
             outa255 == src[4] * 255 + blend
             coef1 == (src[4] * 255 * 255 * (2 ^ PrecisionBits)) \div outa255
             coef2 == 255 * (2 ^ PrecisionBits) - coef1
             Channel(c) ==
                 ShiftForDiv255(src[c] * coef1 + dst[c] * coef2 + 128 * (2 ^ PrecisionBits))
                    \div (2 ^ PrecisionBits)
         IN <<Channel(1), Channel(2), Channel(3), ShiftForDiv255(outa255 + 128)>>

AlphaComposite(dst, src) == [i \in DOMAIN dst |-> OverPixel(dst[i], src[i])]

\* Image.alpha_composite(background, foreground), the foreground size-matched
Composite_Swapped(background, foreground) ==
    [under |-> background, over |-> foreground,
     pixels |-> AlphaComposite(PixelsOf(foreground), PixelsOf(background))]
Composite(background, foreground) ==
    [under |-> background, over |-> foreground,
     pixels |-> AlphaComposite(PixelsOf(background), PixelsOf(foreground))]

\* a file under uploads/
Path(dir, stem, timestamp) == [dir |-> dir, stem |-> stem, timestamp |-> timestamp]
AddTextPath(ref, timestamp) == Path("uploads/processed", <<ref.name, "_text_">>, timestamp)
MultilayerPath(timestamp) == Path("uploads/public", <<"multilayer_">>, timestamp)
ComposedPath(timestamp) == Path("uploads/public", <<"composed_">>, timestamp)

\* a layer of add_multiple_text_layers: TextLayer(text, position, style),
\* with the box draw.textbbox measures for its text in its font
TextLayer(text, position, style, text_box) ==
    [text |-> text, position |-> position, style |-> style, text_box |-> text_box]

\* (int(position.get('x', 10)), int(position.get('y', 10))); a position
\* that is no dict has no get
PositionRaises(position) == "dict" \notin DOMAIN position
PositionTuple(position) ==
    Tuple(<<Get(position.dict, "x", 10), Get(position.dict, "y", 10)>>)

\* the draw.text calls _apply_text_effects made, each with the text and
\* the font it was given and the number of the layer they belong to
TextCalls(layer, i, font, out) ==
    IF font.raised THEN Failed(<<>>)
    ELSE [raised |-> out.raised,
          draws |-> [k \in 1..Len(out.draws) |->
                       [layer |-> i, text |-> layer.text, font |-> font.handle,
                        x |-> out.draws[k].x, y |-> out.draws[k].y,
                        fill |-> out.draws[k].fill]]]

\* One pass of the loop over text_layers, for layer number i.
LayerCalls(layer, i) ==
    IF PositionRaises(layer.position) THEN Failed(<<>>)
    ELSE TextCalls(layer, i,
                   GetFont(Get(layer.style, "font_name", "anton"),
                           Get(layer.style, "font_size", 120)),
                   ApplyTextEffects(PositionTuple(layer.position),
                                    layer.text_box[1], layer.text_box[2],
                                    Get(layer.style, "color", WhiteHex),
                                    Get(layer.style, "effects", NoneValue)))

\* The loop from pass i on, passes[i] being what pass i does when the
\* loop reaches it; an exception ends the loop.
RECURSIVE Loop(_, _, _)
Loop(passes, i, drawn) ==
    IF i > Len(passes) THEN Returned(drawn)
    ELSE IF passes[i].raised THEN Failed(drawn \o passes[i].draws)
    ELSE Loop(passes, i + 1, drawn \o passes[i].draws)

\* for i, layer in enumerate(text_layers)
RenderLayers_LastFirst(text_layers) ==
    Loop([i \in DOMAIN text_layers |->
            LayerCalls(text_layers[Len(text_layers) + 1 - i], Len(text_layers) + 1 - i)],
         1, <<>>)
RenderLayers(text_layers) ==
    Loop([i \in DOMAIN text_layers |-> LayerCalls(text_layers[i], i)], 1, <<>>)

\* what a handler raises: its own message around the cause's
Raise(handler, cause) == [raised |-> TRUE, handler |-> handler, cause |-> cause]
Return(value) == [raised |-> FALSE, value |-> value]

\* the public URL of an uploaded object
Url(object) == [url_of |-> object]

Await(r, at) == pc[r] = at

\* the image path a call is resolving
Resolving(r) ==
    IF pc[r] = "resolve_fg" THEN call[r].foreground_path ELSE call[r].background_path

AfterResolve(r) ==
    IF call[r].handler = "compose_final_image" /\ pc[r] = "resolve" THEN "resolve_fg"
    ELSE "render"

Sent(r) == IF Resolving(r).scheme = "url" THEN fetches[r] + 1 ELSE fetches[r]

\* add_text's own defaults for the arguments a caller leaves out
AddTextStyle(style) ==
    style @@ [font_size |-> 120, color |-> WhiteHex, font_name |-> "Impact",
              effects |-> NoneValue]

\* A caller invokes add_text(background_path, text, position, ...).
StartAddText(r, refs, layers) ==
    /\ Await(r, "idle")
    /\ \E ref \in refs, layer \in layers :
         call' = [call EXCEPT ![r] =
                    [handler |-> "add_text", background_path |-> ref,
                     text_layers |-> <<[layer EXCEPT !.style = AddTextStyle(@)]>>]]
    /\ pc' = [pc EXCEPT ![r] = "resolve"]
    /\ UNCHANGED <<clock, files, fetches, canvas, outPath, uploaded, ret,
                   colorVars, fontVars, fxVars>>

\* A caller invokes add_multiple_text_layers(background_path, text_layers).
StartAddMultipleTextLayers(r, refs, layerLists) ==
    /\ Await(r, "idle")
    /\ \E ref \in refs, text_layers \in layerLists :
         call' = [call EXCEPT ![r] =
                    [handler |-> "add_multiple_text_layers", background_path |-> ref,
                     text_layers |-> text_layers]]
    /\ pc' = [pc EXCEPT ![r] = "resolve"]
    /\ UNCHANGED <<clock, files, fetches, canvas, outPath, uploaded, ret,
                   colorVars, fontVars, fxVars>>

\* A caller invokes compose_final_image(background_with_text_path,
\* foreground_path).
StartComposeFinalImage(r, refs) ==
    /\ Await(r, "idle")
    /\ \E background \in refs, foreground \in refs :
         call' = [call EXCEPT ![r] =
                    [handler |-> "compose_final_image", background_path |-> background,
                     foreground_path |-> foreground]]
    /\ pc' = [pc EXCEPT ![r] = "resolve"]
    /\ UNCHANGED <<clock, files, fetches, canvas, outPath, uploaded, ret,
                   colorVars, fontVars, fxVars>>

\* await self._resolve_image_path(...) returns a path that can be opened.
ResolveOk(r) ==
    /\ pc[r] \in {"resolve", "resolve_fg"}
    /\ fetches' = [fetches EXCEPT ![r] = Sent(r)]
    /\ pc' = [pc EXCEPT ![r] = AfterResolve(r)]
    /\ UNCHANGED <<clock, files, call, canvas, outPath, uploaded, ret,
                   colorVars, fontVars, fxVars>>

\* It raises: the download failed, or no candidate path is a file.
ResolveFail_Retries(r) ==
    /\ pc[r] \in {"resolve", "resolve_fg"}
    /\ fetches' = [fetches EXCEPT ![r] = Sent(r) + 1]
    /\ pc' = [pc EXCEPT ![r] = "done"]
    /\ ret' = [ret EXCEPT ![r] = Raise(call[r].handler, "resolve")]
    /\ UNCHANGED <<clock, files, call, canvas, outPath, uploaded,
                   colorVars, fontVars, fxVars>>
ResolveFail(r) ==
    /\ pc[r] \in {"resolve", "resolve_fg"}
    /\ fetches' = [fetches EXCEPT ![r] = Sent(r)]
    /\ pc' = [pc EXCEPT ![r] = "done"]
    /\ ret' = [ret EXCEPT ![r] = Raise(call[r].handler, "resolve")]
    /\ UNCHANGED <<clock, files, call, canvas, outPath, uploaded,
                   colorVars, fontVars, fxVars>>

\* Image.open raises on a file that is no image.
OpenFail(r) ==
    /\ Await(r, "render")
    /\ pc' = [pc EXCEPT ![r] = "done"]
    /\ ret' = [ret EXCEPT ![r] = Raise(call[r].handler, "open")]
    /\ UNCHANGED <<clock, files, fetches, call, canvas, outPath, uploaded,
                   colorVars, fontVars, fxVars>>

\* the size-matched foreground of a compose_final_image call (the other
\* handlers have none)
Foregrounds(r) ==
    IF call[r].handler = "compose_final_image"
    THEN SizeMatched(Opened(call[r].background_path), Opened(call[r].foreground_path))
    ELSE {Nothing}

\* the image a handler has built when it reaches its save
Rendered(r, foreground) ==
    IF call[r].handler = "compose_final_image"
    THEN [raised |-> FALSE,
          image |-> Composite(Opened(call[r].background_path), foreground)]
    ELSE LET out == RenderLayers(call[r].text_layers)
         IN [raised |-> out.raised,
             image |-> [Opened(call[r].background_path) EXCEPT !.draws = out.draws]]

\* the file it saves that image to
ResultPath(r) ==
    CASE call[r].handler = "add_text" -> AddTextPath(call[r].background_path, clock)
      [] call[r].handler = "add_multiple_text_layers" -> MultilayerPath(clock)
      [] call[r].handler = "compose_final_image" -> ComposedPath(clock)

Save(path, image) == [p \in DOMAIN files \cup {path} |-> IF p = path THEN image ELSE files[p]]

\* result.save(result_path), and on to the await of the upload
SaveResult(r, image, path) ==
    /\ canvas' = [canvas EXCEPT ![r] = image]
    /\ outPath' = [outPath EXCEPT ![r] = path]
    /\ files' = Save(path, image)
    /\ pc' = [pc EXCEPT ![r] = "saved"]
    /\ UNCHANGED <<clock, fetches, call, uploaded, ret, colorVars, fontVars, fxVars>>

\* except Exception as e: raise ValueError(...)
Except_Swallows(r, image, cause) ==
    /\ canvas' = [canvas EXCEPT ![r] = image]
    /\ pc' = [pc EXCEPT ![r] = "done"]
    /\ ret' = [ret EXCEPT ![r] = Return(NoneValue)]
    /\ UNCHANGED <<clock, files, fetches, call, outPath, uploaded,
                   colorVars, fontVars, fxVars>>
Except(r, image, cause) ==
    /\ canvas' = [canvas EXCEPT ![r] = image]
    /\ pc' = [pc EXCEPT ![r] = "done"]
    /\ ret' = [ret EXCEPT ![r] = Raise(call[r].handler, cause)]
    /\ UNCHANGED <<clock, files, fetches, call, outPath, uploaded,
                   colorVars, fontVars, fxVars>>

\* a layer raised, and nothing is saved; or none did
Finish(r, out) ==
    IF out.raised THEN Except(r, out.image, "render")
    ELSE SaveResult(r, out.image, ResultPath(r))

\* One synchronous stretch, from Image.open to the await of the upload:
\* open, draw every layer (or composite), name the result after the clock
\* and save it.
Render(r) ==
    /\ Await(r, "render")
    /\ \E foreground \in Foregrounds(r) : Finish(r, Rendered(r, foreground))

\* self.s3.upload_image(path) reads the file at the path it was given.
UploadRead(r) ==
    /\ Await(r, "saved")
    /\ uploaded' = [uploaded EXCEPT ![r] = files[outPath[r]]]
    /\ pc' = [pc EXCEPT ![r] = "uploading"]
    /\ UNCHANGED <<clock, files, fetches, call, canvas, outPath, ret,
                   colorVars, fontVars, fxVars>>

\* The upload completes and the handler returns the object's URL.
UploadDone(r) ==
    /\ Await(r, "uploading")
    /\ ret' = [ret EXCEPT ![r] = Return(Url(uploaded[r]))]
    /\ pc' = [pc EXCEPT ![r] = "done"]
    /\ UNCHANGED <<clock, files, fetches, call, canvas, outPath, uploaded,
                   colorVars, fontVars, fxVars>>

\* The upload raises; the handler's except wraps it.
UploadFail(r) ==
    /\ pc[r] \in {"saved", "uploading"}
    /\ ret' = [ret EXCEPT ![r] = Raise(call[r].handler, "upload")]
    /\ pc' = [pc EXCEPT ![r] = "done"]
    /\ UNCHANGED <<clock, files, fetches, call, canvas, outPath, uploaded,
                   colorVars, fontVars, fxVars>>

\* time passes
MaxClock == 1
Tick ==
    /\ clock < MaxClock
    /\ clock' = clock + 1
    /\ UNCHANGED <<files, fetches, pc, call, canvas, outPath, uploaded, ret,
                   colorVars, fontVars, fxVars>>

(***************************************************************************)
(* The render specification: one call at a time, over layers of every     *)
(* kind.                                                                   *)
(***************************************************************************)
MaxLayersPerCall == 2

RenderRefs == {ImageRef("url", "photo"), ImageRef("local", "photo")}
ComposeRefs ==
    {ImageRef("local", "photo"), ImageRef("url", "cutout"), ImageRef("local", "faded"),
     ImageRef("local", "small")}

Effect(type, settings) == ("type" :> type) @@ ("settings" :> settings)

PlainLayer == TextLayer("plain", Dict([x |-> 0, y |-> 0]), EmptyDict, <<40, 20>>)
UnknownLayer ==
    TextLayer("unknown", Dict([x |-> 100, y |-> 100]),
              [effects |-> Effect("bevel", [width |-> 1]), color |-> Red], <<40, 20>>)
OutlineLayer ==
    TextLayer("outline", Dict([x |-> 50, y |-> 60]),
              [effects |-> Effect("outline", [width |-> 1]), font_name |-> "Anton",
               font_size |-> 48], <<7, 5>>)
GlowLayer ==
    TextLayer("glow", Dict([x |-> 5]),
              [effects |-> Effect("glow", [radius |-> 1, color |-> Red])], <<7, 5>>)
LegacyLayer ==
    TextLayer("legacy", Dict([y |-> 30]),
              [effects |-> [shadow |-> [offset |-> List(<<2, 2>>)]]], <<40, 20>>)
BadColorLayer ==
    TextLayer("badcolor", Dict([x |-> 1, y |-> 2]),
              [effects |-> Effect("shadow", [color |-> BadHex])], <<40, 20>>)
NoDictLayer == TextLayer("nodict", Tuple(<<1, 2>>), EmptyDict, <<40, 20>>)
NoSizeLayer ==
    TextLayer("nosize", Dict([x |-> 9, y |-> 9]), [font_size |-> 0], <<0, 0>>)

SampleLayers ==
    {PlainLayer, UnknownLayer, OutlineLayer, GlowLayer, LegacyLayer,
     BadColorLayer, NoDictLayer, NoSizeLayer}

LayerLists == UNION {[1..n -> SampleLayers] : n \in 0..MaxLayersPerCall}

\* the fonts of the machine the handlers run on
FontsInstalled ==
    /\ fontsOnDisk = {"Anton-Regular.ttf"}
    /\ loadable = {FontPath("Anton-Regular.ttf"), SystemFont("Arial")}
    /\ fontIn = [font_name |-> NoneName, font_size |-> 0]
    /\ fontOut = NotCalled

ReqInit == ColorIdle /\ FontsInstalled /\ FxIdle /\ ReqIdle

RenderNext ==
    \/ StartAddText(1, RenderRefs, SampleLayers)
    \/ StartAddMultipleTextLayers(1, RenderRefs, LayerLists)
    \/ StartComposeFinalImage(1, ComposeRefs)
    \/ ResolveOk(1)
    \/ ResolveFail(1)
    \/ OpenFail(1)
    \/ Render(1)
    \/ UploadRead(1)
    \/ UploadDone(1)
    \/ UploadFail(1)
    \/ Tick

SpecRender == ReqInit /\ [][RenderNext]_vars

(***************************************************************************)
(* The service specification: NumRequests calls in flight on one           *)
(* CompositionService, interleaved at their awaits.                        *)
(***************************************************************************)
Refs == {ImageRef("local", "photo")}
Layers == {PlainLayer, OutlineLayer}
Lists == {<<>>, <<PlainLayer>>, <<OutlineLayer, PlainLayer>>}

Next ==
    \/ \E r \in Requests :
          \/ StartAddText(r, Refs, Layers)
          \/ StartAddMultipleTextLayers(r, Refs, Lists)
          \/ StartComposeFinalImage(r, Refs)
          \/ ResolveOk(r)
          \/ ResolveFail(r)
          \/ OpenFail(r)
          \/ Render(r)
          \/ UploadRead(r)
          \/ UploadDone(r)
          \/ UploadFail(r)
    \/ Tick

Spec == ReqInit /\ [][Next]_vars

(***************************************************************************)
(* Properties of _hex_to_rgba, checked under SpecColor.                    *)
(***************************************************************************)
AllHex(s) == \A i \in 1..Len(s) : s[i] \in HexDigits

\* a well-formed #RGB, #RGBA, #RRGGBB or #RRGGBBAA colour
WellFormed(s) ==
    /\ Len(s) \in {4, 5, 7, 9}
    /\ s[1] = "#"
    /\ AllHex(Tail(s))

\* '#' followed by every digit of the short form s written twice
RECURSIVE DoubleEach(_)
DoubleEach(s) == IF s = <<>> THEN <<>> ELSE <<Head(s), Head(s)>> \o DoubleEach(Tail(s))
Doubled(s) == <<"#">> \o DoubleEach(Tail(s))

\* C9: every string that is not a well-formed #RGB, #RGBA, #RRGGBB or
\* #RRGGBBAA colour makes _hex_to_rgba return (255,255,255,255) without
\* raising, whether its length is wrong or it holds a non-hex character.
C9_MalformedYieldsWhite ==
    (hexOut # NotCalled /\ ~WellFormed(hexIn)) => hexOut = Rgba(255, 255, 255, 255)

\* C10: for every #RGB colour _hex_to_rgba returns what it returns for the
\* #RRGGBB colour with each digit doubled, with alpha 255; likewise #RGBA
\* and #RRGGBBAA; "#F00" and "#FF0000" both give (255,0,0,255).
C10_ShortFormEqualsDoubled ==
    (hexOut # NotCalled /\ WellFormed(hexIn) /\ Len(hexIn) \in {4, 5}) =>
        /\ ~hexOut.raised
        /\ hexOut = HexToRgba(Doubled(hexIn))
        /\ Len(hexIn) = 4 => hexOut.rgba[4] = 255
        /\ hexIn = <<"#", "F", "0", "0">> =>
              /\ hexOut.rgba = <<255, 0, 0, 255>>
              /\ HexToRgba(<<"#", "F", "F", "0", "0", "0", "0">>) = hexOut

C10_Witness ==
    /\ hexIn = <<"#", "a", "0", "F", "a">>
    /\ hexOut = Rgba(170, 0, 255, 170)

\* the byte two hex digits stand for
Byte(hi, lo) == 16 * HexVal(hi) + HexVal(lo)

\* C11: for every valid 6-digit hex colour, parsing it and then applying
\* opacity 1.0 leaves R, G and B exactly as parsed, which is as the digits
\* say, and gives alpha 255.
C11_FullOpacityKeepsRgb ==
    (tinted # NotCalled /\ tinted.opacity = 100 /\ WellFormed(hexIn) /\ Len(hexIn) = 7) =>
        /\ \A i \in 1..3 : tinted.rgba[i] = hexOut.rgba[i]
        /\ tinted.rgba = <<Byte(hexIn[2], hexIn[3]), Byte(hexIn[4], hexIn[5]),
                           Byte(hexIn[6], hexIn[7]), 255>>

C11_Witness ==
    /\ hexIn = <<"#", "a", "0", "F", "0", "a", "F">>
    /\ tinted = [opacity |-> 100, rgba |-> <<160, 240, 175, 255>>]

\* a colour's own alpha scaled by the opacity p: floor(a * p)
ScaledAlpha(a, opacity) == (a * opacity) \div 100

\* C12: applying an opacity p in [0,1] to a parsed colour scales the colour's
\* own alpha: a colour with alpha a gets alpha floor(a * p) and keeps R, G
\* and B, for every accepted form, #RGBA and #RRGGBBAA with alpha below 255
\* included.
C12_OpacityScalesOwnAlpha ==
    (tinted # NotCalled /\ WellFormed(hexIn)) =>
        /\ \A i \in 1..3 : tinted.rgba[i] = hexOut.rgba[i]
        /\ tinted.rgba[4] = ScaledAlpha(hexOut.rgba[4], tinted.opacity)

\* C12 holds of the colours whose own alpha is 255: #RGB, #RRGGBB, and the
\* forms with alpha digits f or ff.
OpacityScalesOpaqueColours ==
    (tinted # NotCalled /\ WellFormed(hexIn) /\ hexOut.rgba[4] = 255) =>
        /\ \A i \in 1..3 : tinted.rgba[i] = hexOut.rgba[i]
        /\ tinted.rgba[4] = ScaledAlpha(hexOut.rgba[4], tinted.opacity)

(***************************************************************************)
(* Properties of _get_font, checked under SpecFont.                        *)
(***************************************************************************)
\* what the lookup order names first: the alias's file in assets/fonts when
\* it has a font extension and exists, else the alias as a system font,
\* else the identifier itself as a system font
FirstChoice(name) ==
    IF Lower(name) \in DOMAIN dramatic_fonts
    THEN LET f == dramatic_fonts[Lower(name)]
         IN IF HasFontExt(f) /\ f \in fontsOnDisk THEN FontPath(f) ELSE SystemFont(f)
    ELSE SystemFont(name)

CanLoad(source) == fontIn.font_size > 0 /\ source \in loadable

\* C8: _get_font never raises and always returns a font handle: the first
\* choice of the lookup order when it loads, else "Arial" when that loads,
\* else the built-in default font.
C8_GetFontNeverRaises ==
    fontOut # NotCalled =>
        /\ ~fontOut.raised
        /\ LET n == fontIn.font_name
               h == fontOut.handle
           IN IF n # NoneName /\ CanLoad(FirstChoice(n))
              THEN h.kind = "truetype" /\ h.source = FirstChoice(n)
              ELSE IF CanLoad(SystemFont("Arial"))
              THEN h.kind = "truetype" /\ h.source = SystemFont("Arial")
              ELSE h.kind = "default"

\* the alias's file exists but cannot be loaded, and neither can "Arial"
C8_Witness ==
    /\ fontIn.font_name = "Anton"
    /\ "Anton-Regular.ttf" \in fontsOnDisk
    /\ loadable = {SystemFont("Anton-Regular.ttf")}
    /\ fontOut # NotCalled
    /\ fontOut = LoadDefault

(***************************************************************************)
(* Properties of _apply_text_effects, checked under SpecEffects.           *)
(***************************************************************************)
FxCalled == fxOut # NotCalled
FxOrigin == DrawOrigin(fxIn.position, fxIn.text_box[1], fxIn.text_box[2])
FxBaseDraw == Draw(FxOrigin[1], FxOrigin[2], StrFill(fxIn.color))
FxTyped(type) ==
    /\ ~IsNone(fxIn.effects)
    /\ "type" \in DOMAIN fxIn.effects
    /\ fxIn.effects["type"] = type
FxSettings == Get(fxIn.effects, "settings", EmptyDict)
\* the draws before the last one, and the last one
FxEffectDraws == SubSeq(fxOut.draws, 1, Len(fxOut.draws) - 1)
FxLastDraw == fxOut.draws[Len(fxOut.draws)]
\* the effect colour with the effect's opacity, as the branches build it
FxEffectFill(defaultColor, defaultOpacity) ==
    RgbaFill(WithOpacity(HexToRgba(Get(FxSettings, "color", defaultColor)).rgba,
                         Get(FxSettings, "opacity", defaultOpacity)))
FxColourParses(defaultColor) == ~HexToRgba(Get(FxSettings, "color", defaultColor)).raised

\* what C1 says of a call that has returned its draws
OutlineDrawsAsClaimed(w) ==
    LET grid == {d \in (-w..w) \X (-w..w) : d # <<0, 0>>}
        At(d) == {k \in 1..Len(FxEffectDraws) :
                     /\ FxEffectDraws[k].x = FxOrigin[1] + d[1]
                     /\ FxEffectDraws[k].y = FxOrigin[2] + d[2]}
    IN /\ Len(fxOut.draws) = (2 * w + 1) * (2 * w + 1)
       /\ \A d \in grid : Cardinality(At(d)) = 1
       /\ \A k \in 1..Len(FxEffectDraws) : FxEffectDraws[k].fill = FxEffectFill(Black, 100)
       /\ FxLastDraw = FxBaseDraw
       /\ w = 2 => Len(FxEffectDraws) = 24

\* C1: for an effect of type 'outline' with integer width w >= 0 the call
\* issues exactly (2w+1)^2 - 1 outline draws, one at origin+(dx,dy) for every
\* (dx,dy) of [-w,w]x[-w,w] but (0,0), each in the outline colour, and then
\* exactly one base draw at the origin; 24 + 1 draws for w = 2.
C1_OutlineDraws ==
    (FxCalled /\ FxTyped("outline") /\ Get(FxSettings, "width", 2) >= 0) =>
        /\ ~fxOut.raised
        /\ OutlineDrawsAsClaimed(Get(FxSettings, "width", 2))

\* C1 holds of every outline effect whose colour _hex_to_rgba accepts.
OutlineDrawsWhenColourParses ==
    (FxCalled /\ FxTyped("outline") /\ Get(FxSettings, "width", 2) >= 0
       /\ FxColourParses(Black)) =>
        /\ ~fxOut.raised
        /\ OutlineDrawsAsClaimed(Get(FxSettings, "width", 2))

\* what C2 says of a call that has returned its draws
GlowDrawsAsClaimed(r) ==
    /\ Len(FxEffectDraws) = 12 * Min(r, 20)
    /\ FxLastDraw = FxBaseDraw
    /\ r = 10 => Len(FxEffectDraws) = 120

\* C2: for an effect of type 'glow' with integer radius r >= 1 the call
\* issues exactly 12 * min(r, 20) offset draws, 12 per ring, and then exactly
\* one base draw at the origin; 120 + 1 draws for r = 10.
C2_GlowDraws ==
    (FxCalled /\ FxTyped("glow") /\ Get(FxSettings, "radius", 10) >= 1) =>
        /\ ~fxOut.raised
        /\ GlowDrawsAsClaimed(Get(FxSettings, "radius", 10))

\* C2 holds of every glow effect whose colour _hex_to_rgba accepts.
GlowDrawsWhenColourParses ==
    (FxCalled /\ FxTyped("glow") /\ Get(FxSettings, "radius", 10) >= 1
       /\ FxColourParses(WhiteHex)) =>
        /\ ~fxOut.raised
        /\ GlowDrawsAsClaimed(Get(FxSettings, "radius", 10))

(***************************************************************************)
(* Properties of add_multiple_text_layers, checked under SpecRender.       *)
(***************************************************************************)
Multi(r) == call[r] # Nothing /\ call[r].handler = "add_multiple_text_layers"
\* the call has run its layer loop (to its end or to an exception)
Drawn(r) == canvas[r] # Nothing
RenderRaised(r) == ret[r] # Nothing /\ ret[r].raised /\ ret[r].cause = "render"

HasUnknownTag(layer) ==
    /\ "effects" \in DOMAIN layer.style
    /\ ~IsNone(layer.style.effects)
    /\ "type" \in DOMAIN layer.style.effects
    /\ layer.style.effects["type"] \notin KnownTypes

\* the same layer with no effect in its style
WithoutEffect(layer) ==
    [layer EXCEPT !.style = [k \in DOMAIN layer.style \ {"effects"} |-> layer.style[k]]]

\* the draw.text calls on the canvas that belong to layer i
DrawsOf(r, i) == SelectSeq(canvas[r].draws, LAMBDA d : d.layer = i)

\* the loop got to layer i and past it
Passed(r, i) ==
    \/ ~RenderRaised(r)
    \/ \E d \in {canvas[r].draws[k] : k \in DOMAIN canvas[r].draws} : d.layer > i

\* the one base draw of a layer: at its draw origin, in its base colour
BaseDraw(layer, i) ==
    LET o == DrawOrigin(PositionTuple(layer.position), layer.text_box[1], layer.text_box[2])
    IN [layer |-> i, text |-> layer.text,
        font |-> GetFont(Get(layer.style, "font_name", "anton"),
                         Get(layer.style, "font_size", 120)).handle,
        x |-> o[1], y |-> o[2], fill |-> StrFill(Get(layer.style, "color", WhiteHex))]

\* C3: a layer whose effect spec carries an unknown 'type' tag is rendered as
\* plain text (one base draw at its draw origin in the base colour), raises
\* nothing, and every layer of the call is rendered exactly as it would be
\* had that layer carried no effect.
C3_UnknownTagRendersPlain ==
    \A r \in Requests : (Multi(r) /\ Drawn(r)) =>
        \A i \in DOMAIN call[r].text_layers :
            HasUnknownTag(call[r].text_layers[i]) =>
                /\ canvas[r].draws =
                     RenderLayers([call[r].text_layers EXCEPT ![i] = WithoutEffect(@)]).draws
                /\ RenderRaised(r) =
                     RenderLayers([call[r].text_layers EXCEPT ![i] = WithoutEffect(@)]).raised
                /\ Passed(r, i) => DrawsOf(r, i) = <<BaseDraw(call[r].text_layers[i], i)>>

\* an unknown-tag layer followed by an outline layer, both drawn and saved
C3_Witness ==
    /\ Multi(1)
    /\ call[1].text_layers = <<UnknownLayer, OutlineLayer>>
    /\ pc[1] = "saved"
    /\ Len(DrawsOf(1, 1)) = 1
    /\ Len(DrawsOf(1, 2)) = 9

\* C4: rendering an empty layer sequence with add_multiple_text_layers issues
\* no draw call, and the canvas that is saved is the loaded background.
C4_EmptySequenceLeavesBackground ==
    \A r \in Requests : (Multi(r) /\ Drawn(r) /\ call[r].text_layers = <<>>) =>
        /\ canvas[r].draws = <<>>
        /\ ~RenderRaised(r)
        /\ outPath[r] # Nothing
        /\ files[outPath[r]] = [image |-> call[r].background_path.name, draws |-> <<>>]

C4_Witness ==
    /\ Multi(1)
    /\ call[1].text_layers = <<>>
    /\ pc[1] = "saved"
    /\ outPath[1] \in DOMAIN files

\* C5: add_multiple_text_layers renders the layers on one canvas in sequence
\* order: for layers i < j every draw call of layer i comes before every draw
\* call of layer j, and the calls of a layer are those of its own pass.
C5_LayersInSequenceOrder ==
    \A r \in Requests : (Multi(r) /\ Drawn(r)) =>
        /\ \A a, b \in DOMAIN canvas[r].draws :
              canvas[r].draws[a].layer < canvas[r].draws[b].layer => a < b
        /\ \A i \in DOMAIN call[r].text_layers :
              Passed(r, i) => DrawsOf(r, i) = LayerCalls(call[r].text_layers[i], i).draws

\* two layers with several draws each, drawn and saved
C5_Witness ==
    /\ Multi(1)
    /\ call[1].text_layers = <<GlowLayer, OutlineLayer>>
    /\ pc[1] = "saved"
    /\ Len(DrawsOf(1, 1)) = 13
    /\ Len(DrawsOf(1, 2)) = 9

(***************************************************************************)
(* Properties of the three handlers.                                       *)
(***************************************************************************)
Raised_(r) == ret[r] # Nothing /\ ret[r].raised
WroteFile(r) == outPath[r] # Nothing /\ outPath[r] \in DOMAIN files

\* C6: a failed render leaves no output behind: whenever a handler ends by
\* raising, the upload step's failure included, it has written no result file
\* under uploads/ and returns no URL.
C6_FailedRenderLeavesNothing ==
    \A r \in Requests : Raised_(r) => ~WroteFile(r)

\* C7: concurrent calls share no mutable state: no step of one call reads or
\* overwrites what another call in flight wrote, so the file a call saved
\* still holds that call's own image when its upload starts.
C7_OutputFileIsOwn ==
    \A r \in Requests : pc[r] = "saved" => files[outPath[r]] = canvas[r]

(***************************************************************************)
(* Properties of the draw origin, checked under SpecEffects.               *)
(***************************************************************************)
\* the call returned, so its last draw.text is the base text
FxReturned == FxCalled /\ ~fxOut.raised

\* an anchor of a recognised shape: an (x, y) pair, or a dict with x and y
FxAnchorIsPair == "tuple" \in DOMAIN fxIn.position /\ Len(fxIn.position.tuple) = 2
FxAnchorIsKeyed ==
    "dict" \in DOMAIN fxIn.position /\ {"x", "y"} \subseteq DOMAIN fxIn.position.dict
FxAnchor ==
    IF FxAnchorIsPair THEN fxIn.position.tuple
    ELSE <<fxIn.position.dict.x, fxIn.position.dict.y>>

\* floor(h * 0.375) = floor(3h / 8)
ThreeEighths(h) == (3 * h) \div 8

\* C13: for every anchor (x, y) and every text box of width w >= 0 and
\* height h >= 0 the base text is drawn at
\* (x - w div 2, y - h div 2 - floor(h * 0.375)), under every effect type.
C13_BaseTextAtCentredOrigin ==
    (FxReturned /\ (FxAnchorIsPair \/ FxAnchorIsKeyed)) =>
        /\ FxLastDraw.x = FxAnchor[1] - fxIn.text_box[1] \div 2
        /\ FxLastDraw.y = FxAnchor[2] - fxIn.text_box[2] \div 2 - ThreeEighths(fxIn.text_box[2])
        /\ FxLastDraw.fill = StrFill(fxIn.color)

\* a glow on an odd-sized box: 100 - 7 div 2 = 97, 100 - 5 div 2 - 1 = 97
C13_Witness ==
    /\ FxReturned
    /\ FxTyped("glow")
    /\ fxIn.position = Dict([x |-> 100, y |-> 100])
    /\ fxIn.text_box = <<7, 5>>
    /\ Len(fxOut.draws) > 1
    /\ FxLastDraw.x = 97
    /\ FxLastDraw.y = 97

FxOriginExample ==
    /\ FxReturned
    /\ fxIn.position = Dict([x |-> 100, y |-> 100])
    /\ fxIn.text_box = <<40, 20>>

\* C14 as stated: the origin for anchor {x:100, y:100} and a text box of
\* width 40 and height 20 is (80, 82).
C14_OriginIs80_82 ==
    FxOriginExample => (FxLastDraw.x = 80 /\ FxLastDraw.y = 82)

\* C14: the origin for anchor {x:100, y:100} and a text box of width 40 and
\* height 20 is (80, 83): 100 - 20, and 100 - 10 - floor(7.5).
C14_OriginIs80_83 ==
    FxOriginExample => (FxLastDraw.x = 80 /\ FxLastDraw.y = 83)

C14_Witness ==
    /\ FxOriginExample
    /\ IsNone(fxIn.effects)
    /\ fxOut.draws = <<Draw(80, 83, StrFill(WhiteHex))>>

\* the (x, y) an anchor stands for: a pair's or a keyed structure's own
\* coordinates, (0, 0) for any other shape
Normalised(position) ==
    IF "tuple" \in DOMAIN position /\ Len(position.tuple) = 2 THEN position.tuple
    ELSE IF "dict" \in DOMAIN position /\ {"x", "y"} \subseteq DOMAIN position.dict
    THEN <<position.dict.x, position.dict.y>>
    ELSE <<0, 0>>

\* where the base text goes for an anchor that stands for xy
OriginAt(xy, text_box) ==
    <<xy[1] - text_box[1] \div 2, xy[2] - text_box[2] \div 2 - ThreeEighths(text_box[2])>>

\* Within _apply_text_effects a pair and a keyed structure give the same
\* origin, and any other shape is taken as (0, 0) without failing.
AnchorNormalisedInEffects ==
    FxReturned =>
        <<FxLastDraw.x, FxLastDraw.y>> = OriginAt(Normalised(fxIn.position), fxIn.text_box)

\* the handler has run the pass of layer i, and the layer's effect is one
\* that _apply_text_effects does not raise on
PassRuns(r, i) ==
    /\ i = 1 \/ ~RenderRaised(r)
    /\ ~ApplyTextEffects(Tuple(<<0, 0>>), 0, 0,
                         Get(call[r].text_layers[i].style, "color", WhiteHex),
                         Get(call[r].text_layers[i].style, "effects", NoneValue)).raised

Draws(r) == call[r] # Nothing /\ call[r].handler \in {"add_text", "add_multiple_text_layers"}

\* C15: on every path from add_text and add_multiple_text_layers into
\* _apply_text_effects an anchor given as a pair and the same anchor given as
\* a keyed structure resolve to the same origin, and an anchor of any other
\* shape, a keyed structure missing x or y included, is treated as (0, 0)
\* without failing.
C15_AnchorNormalisedOnEveryPath ==
    \A r \in Requests : (Draws(r) /\ Drawn(r)) =>
        \A i \in DOMAIN call[r].text_layers :
            PassRuns(r, i) =>
                /\ DrawsOf(r, i) # <<>>
                /\ LET base == DrawsOf(r, i)[Len(DrawsOf(r, i))]
                   IN <<base.x, base.y>> =
                        OriginAt(Normalised(call[r].text_layers[i].position),
                                 call[r].text_layers[i].text_box)

(***************************************************************************)
(* Properties of compose_final_image, checked under SpecRender.            *)
(***************************************************************************)
Composes(r) == call[r] # Nothing /\ call[r].handler = "compose_final_image"

\* C16: compose_final_image composites the size-matched foreground over the
\* background: where the foreground has alpha 255 the output pixel is the
\* foreground pixel whatever the background pixel is, and where it has
\* alpha 0 the output pixel is the background pixel.
C16_ForegroundOverBackground ==
    \A r \in Requests : (Composes(r) /\ Drawn(r)) =>
        /\ canvas[r].under = [image |-> call[r].background_path.name, draws |-> <<>>]
        /\ canvas[r].over.image = call[r].foreground_path.name
        /\ Len(PixelsOf(canvas[r].over)) = Len(ImagePixels(call[r].background_path.name))
        /\ DOMAIN canvas[r].pixels = DOMAIN ImagePixels(call[r].background_path.name)
        /\ \A i \in DOMAIN canvas[r].pixels :
              /\ PixelsOf(canvas[r].over)[i][4] = 255 =>
                    canvas[r].pixels[i] = PixelsOf(canvas[r].over)[i]
              /\ PixelsOf(canvas[r].over)[i][4] = 0 =>
                    canvas[r].pixels[i] = ImagePixels(call[r].background_path.name)[i]
        /\ files[outPath[r]] = canvas[r]

\* the cutout over the photo: its opaque pixel wins, its clear pixel shows
\* the photo, and its half-clear pixel over a clear one keeps its colour
C16_Witness ==
    /\ Composes(1)
    /\ call[1].background_path.name = "photo"
    /\ call[1].foreground_path.name = "cutout"
    /\ pc[1] = "saved"
    /\ canvas[1].pixels = << <<255, 0, 0, 255>>, <<200, 100, 0, 255>>, <<0, 255, 0, 128>> >>

(***************************************************************************)
(* Properties of _resolve_image_path within the handlers, checked under    *)
(* SpecRender.                                                             *)
(***************************************************************************)
IsUrl(ref) == ref.scheme = "url"
InResolve(r) == pc[r] \in {"resolve", "resolve_fg"}

\* the remote images of a call whose resolve has been started and is over
UrlsTried(r) ==
    IF call[r] = Nothing THEN 0
    ELSE (IF pc[r] # "resolve" /\ IsUrl(call[r].background_path) THEN 1 ELSE 0)
           + (IF call[r].handler = "compose_final_image" /\ ~InResolve(r)
                   /\ IsUrl(call[r].foreground_path)
              THEN 1 ELSE 0)

\* a step of call r that sends a request is the resolve of a remote image,
\* sends one request, and ends that resolve: the call goes on, or it raises
OneRequestPerResolve(r) ==
    /\ fetches'[r] \in {fetches[r], fetches[r] + 1}
    /\ fetches'[r] = fetches[r] + 1 =>
          /\ InResolve(r)
          /\ IsUrl(Resolving(r))
          /\ pc'[r] \in {AfterResolve(r), "done"}
    /\ (InResolve(r) /\ pc'[r] = "done") =>
          /\ ret'[r] = Raise(call[r].handler, "resolve")
          /\ fetches'[r] = fetches[r] + (IF IsUrl(Resolving(r)) THEN 1 ELSE 0)
    /\ pc[r] = "done" => fetches'[r] = fetches[r]

\* C17: a fetch of a remote image is attempted exactly once per resolve: a
\* failed download is raised to the caller at once, and no second request
\* is sent.
C17_NoRetry ==
    /\ [](\A r \in Requests : fetches[r] <= UrlsTried(r))
    /\ [][\A r \in Requests : OneRequestPerResolve(r)]_vars

\* a call on a remote image whose download failed: one request, and the
\* call has raised
C17_Witness ==
    /\ call[1] # Nothing
    /\ IsUrl(call[1].background_path)
    /\ ret[1] = Raise(call[1].handler, "resolve")
    /\ fetches[1] = 1

(***************************************************************************)
(* Properties of the handlers' error handling, checked under SpecRender.   *)
(***************************************************************************)
\* what can fail at the point a call stands at
CausesAt(at) ==
    CASE at \in {"resolve", "resolve_fg"} -> {"resolve"}
      [] at = "render" -> {"open", "render"}
      [] at \in {"saved", "uploading"} -> {"upload"}
      [] OTHER -> {}

\* a layer of the call raises
LayersRaise(r) ==
    /\ call[r].handler \in {"add_text", "add_multiple_text_layers"}
    /\ RenderLayers(call[r].text_layers).raised

\* the step that ends call r: a normal result only from a finished upload,
\* else the handler's own error around the cause of the point it stood at;
\* and a call whose layers raise does not get past its render
EndsInResultOrWrappedCause(r) ==
    /\ (pc[r] # "done" /\ pc'[r] = "done") =>
          \/ pc[r] = "uploading" /\ ret'[r] = Return(Url(uploaded[r]))
          \/ \E cause \in CausesAt(pc[r]) : ret'[r] = Raise(call[r].handler, cause)
    /\ (pc[r] = "render" /\ LayersRaise(r)) =>
          (pc'[r] = "render" \/ ret'[r] \in {Raise(call[r].handler, "open"),
                                            Raise(call[r].handler, "render")})
    /\ pc[r] = "done" => ret'[r] = ret[r]

\* C18: every failure while loading an image or compositing inside the three
\* handlers reaches the caller as an error that names the handler's
\* operation and carries the original cause; none is swallowed and none
\* returns a normal result.
C18_FailuresPropagateWrapped ==
    /\ [](\A r \in Requests : (pc[r] = "done") = (ret[r] # Nothing))
    /\ [][\A r \in Requests : EndsInResultOrWrappedCause(r)]_vars

\* a layer with a colour _hex_to_rgba raises on: the call ends with the
\* handler's error around it
C18_Witness ==
    /\ Multi(1)
    /\ call[1].text_layers = <<PlainLayer, BadColorLayer>>
    /\ pc[1] = "done"
    /\ ret[1] = Raise("add_multiple_text_layers", "render")

(***************************************************************************)
(* Properties of the 3d_depth and shadow branches, checked under           *)
(* SpecEffects.                                                            *)
(***************************************************************************)
FxLayers == Get(FxSettings, "layers", 10)
FxGradient == Get(FxSettings, "color_gradient", DefaultGradient)
FxAngle == Get(FxSettings, "angle", 45)
FxDistance == Get(FxSettings, "distance", 2)

\* the gradient index the claim gives layer i of L with N colours
GradientIndex(i, L, N) == Min((i * (N - 1)) \div L, N - 1)

\* C19: for a '3d_depth' effect with layers L >= 1 and a gradient of N >= 1
\* colours the call draws exactly L extrusion layers, in the order
\* L, L-1, ..., 1, layer i in gradient colour min(floor(i/L*(N-1)), N-1),
\* an index of 0..N-1, and then the base text at the origin.
C19_DepthLayersBackToFront ==
    (FxCalled /\ FxTyped("3d_depth") /\ FxLayers >= 1 /\ Len(FxGradient) >= 1) =>
        /\ ~fxOut.raised
        /\ Len(FxEffectDraws) = FxLayers
        /\ \A k \in 1..FxLayers :
             LET i == FxLayers - k + 1
             IN /\ GradientIndex(i, FxLayers, Len(FxGradient)) \in 0..(Len(FxGradient) - 1)
                /\ FxEffectDraws[k].fill =
                      StrFill(FxGradient[GradientIndex(i, FxLayers, Len(FxGradient)) + 1])
                /\ FxEffectDraws[k].x =
                      FxOrigin[1] - Trunc(i * FxDistance * CosE6(FxAngle), TrigScale)
                /\ FxEffectDraws[k].y =
                      FxOrigin[2] - Trunc(i * FxDistance * SinE6(FxAngle), TrigScale)
        /\ FxLastDraw = FxBaseDraw

\* four layers at distance 3 along the x axis over a gradient of two
\* colours: the farthest first, in the last colour
C19_Witness ==
    /\ FxCalled
    /\ FxTyped("3d_depth")
    /\ FxLayers = 4 /\ FxAngle = 0 /\ FxDistance = 3
    /\ FxGradient = <<Red, Black>>
    /\ Len(fxOut.draws) = 5
    /\ fxOut.draws[1].x = FxOrigin[1] - 12 /\ fxOut.draws[1].fill = StrFill(Black)
    /\ fxOut.draws[4].x = FxOrigin[1] - 3 /\ fxOut.draws[4].fill = StrFill(Red)


\* the shadow settings the claim reads: every key but 'blur'
FxShadowSettings == [k \in DOMAIN FxSettings \ {"blur"} |-> FxSettings[k]]
FxShadowOffsetGiven == Get(FxShadowSettings, "offset", List(<<5, 5>>))
\* the offset, (5, 5) unless a sequence of at least two elements is given
FxShadowOffset ==
    IF "list" \in DOMAIN FxShadowOffsetGiven /\ Len(FxShadowOffsetGiven.list) >= 2
    THEN <<FxShadowOffsetGiven.list[1], FxShadowOffsetGiven.list[2]>>
    ELSE <<5, 5>>
FxShadowColour == HexToRgba(Get(FxShadowSettings, "color", Black))
FxShadowOpacity == Get(FxShadowSettings, "opacity", 50)

\* what C20 says of a call that has returned its draws
ShadowDrawsAsClaimed ==
    /\ Len(fxOut.draws) = 2
    /\ fxOut.draws[1] =
          Draw(FxOrigin[1] + FxShadowOffset[1], FxOrigin[2] + FxShadowOffset[2],
               RgbaFill(<<FxShadowColour.rgba[1], FxShadowColour.rgba[2],
                          FxShadowColour.rgba[3], (255 * FxShadowOpacity) \div 100>>))
    /\ fxOut.draws[2] = FxBaseDraw

\* C20: for an effect of type 'shadow' the call issues exactly two draws in
\* this order: the shadow at origin+offset in the shadow colour with alpha
\* floor(255 * opacity), then the base text at the origin; the offset is
\* (5, 5) when absent or not a sequence of at least two elements, the opacity
\* 0.5 and the colour black by default, and 'blur' changes nothing.
C20_ShadowDraws ==
    (FxCalled /\ FxTyped("shadow")) =>
        /\ ~fxOut.raised
        /\ ShadowDrawsAsClaimed

\* C20 holds of every shadow effect whose colour _hex_to_rgba accepts.
ShadowDrawsWhenColourParses ==
    (FxCalled /\ FxTyped("shadow") /\ ~FxShadowColour.raised) =>
        /\ ~fxOut.raised
        /\ ShadowDrawsAsClaimed

\* shadows that reach both draws: one with a one-element offset and a blur,
\* drawn at the default offset, and one with its own offset
ShadowDefaultOffsetDrawn ==
    /\ FxReturned
    /\ FxTyped("shadow")
    /\ "blur" \in DOMAIN FxSettings
    /\ "offset" \in DOMAIN FxSettings /\ FxSettings["offset"] = List(<<1>>)
    /\ Len(fxOut.draws) = 2
    /\ fxOut.draws[1].x = FxOrigin[1] + 5 /\ fxOut.draws[1].y = FxOrigin[2] + 5
    /\ fxOut.draws[1].fill = RgbaFill(<<0, 0, 0, 127>>)

\* a shadow whose colour has a non-hex digit: the call raises and draws nothing
ShadowColourRaises ==
    /\ FxCalled
    /\ FxTyped("shadow")
    /\ FxShadowColour.raised
    /\ fxOut.raised


(***************************************************************************)
(* Properties of the legacy shape and of the base draw, checked under      *)
(* SpecEffects.                                                            *)
(***************************************************************************)
\* an effect dict that is not empty and has no 'type' key
FxLegacy ==
    /\ ~IsNone(fxIn.effects)
    /\ DOMAIN fxIn.effects # {}
    /\ "type" \notin DOMAIN fxIn.effects
FxLegacyShadow == "shadow" \in DOMAIN fxIn.effects
FxLegacyOffsetGiven == Get(fxIn.effects["shadow"], "offset", List(<<5, 5>>))
FxLegacyOffsetIsPair ==
    "list" \in DOMAIN FxLegacyOffsetGiven /\ Len(FxLegacyOffsetGiven.list) >= 2
\* the offset as the shadow effect reads it
FxLegacyOffset ==
    IF FxLegacyOffsetIsPair
    THEN <<FxLegacyOffsetGiven.list[1], FxLegacyOffsetGiven.list[2]>>
    ELSE <<5, 5>>
\* the effect dict without its 'shadow' entry
FxWithoutShadow == [k \in DOMAIN fxIn.effects \ {"shadow"} |-> fxIn.effects[k]]
FxOutcomeFor(effects) ==
    ApplyTextEffects(fxIn.position, fxIn.text_box[1], fxIn.text_box[2],
                     fxIn.color, effects)

\* what C21 says of a legacy dict with a 'shadow' entry
LegacyShadowDrawsAsClaimed ==
    /\ ~fxOut.raised
    /\ fxOut.draws =
          <<Draw(FxOrigin[1] + FxLegacyOffset[1], FxOrigin[2] + FxLegacyOffset[2],
                 StrFill(Get(fxIn.effects["shadow"], "color", Black))),
            FxBaseDraw>>

\* C21: an effect spec without a 'type' key is handled as the legacy shape:
\* with a 'shadow' entry, one shadow draw at origin+offset in the shadow
\* colour (no opacity applied) precedes the single base draw, otherwise only
\* the base draw is issued; with a 'type' key the legacy 'shadow' entry is
\* ignored; and an empty effect dict is rendered exactly like no effect.
C21_LegacyShape ==
    FxCalled =>
       /\ (FxLegacy /\ FxLegacyShadow) => LegacyShadowDrawsAsClaimed
       /\ (FxLegacy /\ ~FxLegacyShadow) => fxOut = Returned(<<FxBaseDraw>>)
       /\ (~IsNone(fxIn.effects) /\ "type" \in DOMAIN fxIn.effects) =>
             fxOut = FxOutcomeFor(FxWithoutShadow)
       /\ fxIn.effects = EmptyDict => fxOut = FxOutcomeFor(NoneValue)

\* C21 holds of every legacy shadow whose offset has two elements or is absent.
LegacyShapeWhenOffsetIsPair ==
    FxCalled =>
       /\ (FxLegacy /\ FxLegacyShadow /\ FxLegacyOffsetIsPair) =>
             LegacyShadowDrawsAsClaimed
       /\ (FxLegacy /\ ~FxLegacyShadow) => fxOut = Returned(<<FxBaseDraw>>)
       /\ (~IsNone(fxIn.effects) /\ "type" \in DOMAIN fxIn.effects) =>
             fxOut = FxOutcomeFor(FxWithoutShadow)
       /\ fxIn.effects = EmptyDict => fxOut = FxOutcomeFor(NoneValue)

\* a legacy shadow with a one-element offset: the call raises on offset[1]
LegacyShadowOffsetRaises ==
    /\ FxCalled
    /\ FxLegacy /\ FxLegacyShadow
    /\ FxLegacyOffsetGiven = List(<<1>>)
    /\ fxOut.raised

\* a legacy shadow drawn in its colour string, and a typed effect that
\* carries a 'shadow' entry too
LegacyShadowDrawn ==
    /\ FxReturned
    /\ FxLegacy /\ FxLegacyShadow
    /\ FxLegacyOffsetGiven = List(<<3, -2>>)
    /\ fxOut.draws[1] = Draw(FxOrigin[1] + 3, FxOrigin[2] - 2, StrFill(Red))
TypedWithLegacyShadow ==
    /\ FxReturned
    /\ FxTyped("outline") /\ "shadow" \in DOMAIN fxIn.effects
    /\ Len(fxOut.draws) = 25


\* the number of draws each effect spec puts under the base text
EffectDrawCount ==
    IF IsNone(fxIn.effects) \/ DOMAIN fxIn.effects = {} THEN 0
    ELSE IF FxLegacy THEN (IF FxLegacyShadow THEN 1 ELSE 0)
    ELSE IF FxTyped("shadow") THEN 1
    ELSE IF FxTyped("outline")
    THEN LET w == Get(FxSettings, "width", 2)
         IN IF w >= 0 THEN (2 * w + 1) * (2 * w + 1) - 1 ELSE 0
    ELSE IF FxTyped("glow")
    THEN LET r == Get(FxSettings, "radius", 10)
         IN IF r >= 1 THEN 12 * Min(r, 20) ELSE 0
    ELSE IF FxTyped("3d_depth") THEN (IF FxLayers >= 1 THEN FxLayers ELSE 0)
    ELSE 0

\* C22: for every effect spec (none, empty, shadow, outline, glow, 3d_depth,
\* unknown type, legacy) on which the call returns normally, the last draw
\* is the base text at the draw origin in the base colour, and it is issued
\* exactly once: the draws are the effect's draws and then one base draw.
C22_BaseDrawLastAndOnce ==
    FxReturned =>
       /\ Len(fxOut.draws) = EffectDrawCount + 1
       /\ FxLastDraw = FxBaseDraw
       /\ (FxTyped("shadow") \/ FxTyped("outline") \/ FxTyped("glow")) =>
             \A k \in 1..Len(FxEffectDraws) : FxEffectDraws[k] # FxBaseDraw

\* a 3d_depth effect at distance 0 whose gradient holds the base colour: a
\* layer is drawn where the base text goes and in its colour, and the base
\* text still comes last
C22_Witness ==
    /\ FxReturned
    /\ FxTyped("3d_depth")
    /\ FxLayers = 4 /\ FxDistance = 0
    /\ \E k \in 1..Len(FxEffectDraws) : FxEffectDraws[k] = FxBaseDraw
    /\ Len(fxOut.draws) = 5
    /\ FxLastDraw = FxBaseDraw


(***************************************************************************)
(* Properties of the upload, checked under Spec.                           *)
(***************************************************************************)
Uploading(r) == uploaded[r] # Nothing
SharesPath(r, q) == q # r /\ outPath[q] # Nothing /\ outPath[q] = outPath[r]

\* C23: the URL a render call returns refers to the image this call
\* rendered: under any interleaving of two concurrent calls, two that start
\* within the same clock second included, the file each call uploads
\* contains its own result and not the other call's.
C23_UploadsOwnResult ==
    \A r \in Requests :
       /\ Uploading(r) => uploaded[r] = canvas[r]
       /\ (ret[r] # Nothing /\ ~ret[r].raised) => ret[r] = Return(Url(canvas[r]))

\* C23 holds of every call whose output path no other call has named.
UploadsOwnResultOnOwnPath ==
    \A r \in Requests :
       (Uploading(r) /\ ~\E q \in Requests : SharesPath(r, q)) =>
           uploaded[r] = canvas[r]

\* two calls named the same path within one second, and the first one's
\* upload read the second one's image
UploadedOthersResult ==
    \E r, q \in Requests :
       /\ SharesPath(r, q)
       /\ Uploading(r)
       /\ uploaded[r] # canvas[r]
       /\ uploaded[r] = canvas[q]


(***************************************************************************)
(* Properties of degenerate effect parameters, checked under SpecEffects.  *)
(***************************************************************************)
FxWidth == Get(FxSettings, "width", 2)
FxRadius == Get(FxSettings, "radius", 10)
FxOnlyBaseDraw == fxOut = Returned(<<FxBaseDraw>>)
\* the divisors of the glow and 3d_depth loops are positive whenever a loop
\* body has run
DivisorsPositive ==
    /\ (FxTyped("glow") /\ Len(fxOut.draws) > 1) => GlowSteps(FxRadius) >= 1
    /\ (FxTyped("3d_depth") /\ Len(fxOut.draws) > 1) => FxLayers >= 1

\* C24: degenerate integer effect parameters never fail the render: outline
\* width <= 0, glow radius <= 0 and 3d_depth layers <= 0 each issue zero
\* effect draws and exactly one base draw, and no division by zero is
\* reached (the divisions by steps and by layers are only evaluated inside
\* loops that run at least once with a positive divisor).
C24_DegenerateParameters ==
    FxCalled =>
       /\ (FxTyped("outline") /\ FxWidth <= 0) => FxOnlyBaseDraw
       /\ (FxTyped("glow") /\ FxRadius <= 0) => FxOnlyBaseDraw
       /\ (FxTyped("3d_depth") /\ FxLayers <= 0) => FxOnlyBaseDraw
       /\ DivisorsPositive

\* C24 holds of every degenerate effect whose colour _hex_to_rgba accepts.
DegenerateParametersWhenColourParses ==
    FxCalled =>
       /\ (FxTyped("outline") /\ FxWidth <= 0 /\ FxColourParses(Black)) => FxOnlyBaseDraw
       /\ (FxTyped("glow") /\ FxRadius <= 0 /\ FxColourParses(WhiteHex)) => FxOnlyBaseDraw
       /\ (FxTyped("3d_depth") /\ FxLayers <= 0) => FxOnlyBaseDraw
       /\ DivisorsPositive

\* a glow of radius 0 whose colour has a non-hex digit: the call raises
DegenerateGlowColourRaises ==
    /\ FxCalled
    /\ FxTyped("glow") /\ FxRadius = 0
    /\ ~FxColourParses(WhiteHex)
    /\ fxOut.raised

\* degenerate effects that draw the base text alone: a glow of radius -1
\* and a 3d_depth of 0 layers over an empty gradient
DegenerateGlowDrawn ==
    /\ FxTyped("glow") /\ FxRadius = -1
    /\ FxCalled /\ FxOnlyBaseDraw
DegenerateDepthDrawn ==
    /\ FxTyped("3d_depth") /\ FxLayers = 0 /\ FxGradient = <<>>
    /\ FxCalled /\ FxOnlyBaseDraw

=============================================================================
